---- MODULE Spec2Model ----
(***************************************************************************)
(* Model of app.py: the assumption extractor (main_flow) and the           *)
(* projection builder (build_new_df, the closure of secondary_flow that    *)
(* the interface calls on every change of its inputs).                     *)
(*                                                                         *)
(* Units.  Money is kept in cents (an integer), a rate in hundredths (an   *)
(* integer: 0.04 is 4), so that round(x, 2) of the source is a rounding to *)
(* the nearest integer of an exact quotient.  The quotients are exact      *)
(* rationals here and binary floating point in the source; the two can     *)
(* differ only where the exact value lies halfway between two neighbours,  *)
(* where the float's representation error decides the direction.  The      *)
(* variable tieUp stands for that direction and is left open.              *)
(***************************************************************************)
EXTENDS Integers, Sequences, FiniteSets, TLC

(***************************************************************************)
(* Bounds of the model.                                                    *)
(***************************************************************************)
MaxPeriods == 3
NegPeriods == 2
MaxCalls == 2
ConcPeriods == 1

Periods == (0 - NegPeriods)..MaxPeriods
\* positions of the two sliders that are tried (each slider runs 0..100 by 1;
\* 4 and 5 are the positions the interface starts with)
ProductRates == {0, 4, 100}
ServiceRates == {0, 5, 100}

Range(s) == {s[i] : i \in DOMAIN s}

(***************************************************************************)
(* The five categories, in the order identify_key_sections inserts them,   *)
(* and the row of the sheet each one is read from.                         *)
(***************************************************************************)
Categories ==
    <<"Product Sales", "Service Sales", "Cost of Goods Sold", "Marketing",
      "Staff Salaries">>

SheetRow ==
    [k \in Range(Categories) |->
        CASE k = "Product Sales" -> 2
          [] k = "Service Sales" -> 3
          [] k = "Cost of Goods Sold" -> 6
          [] k = "Marketing" -> 7
          [] k = "Staff Salaries" -> 8]

(***************************************************************************)
(* Sheets the model is run on.  A row is the label cell (column 0)         *)
(* followed by the 13 monthly cells (columns 1..13), in cents.  History    *)
(* builds a row that moves by `step` every month, except that month        *)
(* flat + 1 repeats month flat when flat > 0.                              *)
(***************************************************************************)
History(label, base, step, flat) ==
    <<label>> \o
    [i \in 1..13 |->
        base + step * ((i - 1) - (IF flat > 0 /\ i > flat THEN 1 ELSE 0))]

RowChoices(k) ==
    CASE k = "Product Sales" ->
            { History(k, 10000, 1000, 0),   \* 100, 110, 120, ...: growing
              History(k, 5000, 500, 1) }    \* 50, 50, 55, ...: one flat month
      [] k = "Service Sales" ->
            { History(k, 5000, 400, 0), History(k, 5000, 500, 1) }
      [] k = "Cost of Goods Sold" ->
            { History(k, 20000, -500, 0),   \* falling: -2.5%, ... a month
              History(k, 10000, 40, 0) }    \* +0.4% a month: rounds to 0.0
      [] k = "Marketing" ->
            { History(k, 8000, 400, 0) }
      [] k = "Staff Salaries" ->
            { History(k, 10000, 1000, 0) }

AllRows == UNION {RowChoices(k) : k \in Range(Categories)}

Sheets ==
    { [r \in {SheetRow[k] : k \in Range(Categories)} |->
          f[CHOOSE k \in Range(Categories) : SheetRow[k] = r]] :
      f \in {g \in [Range(Categories) -> AllRows] :
                \A k \in Range(Categories) : g[k] \in RowChoices(k)} }

VARIABLES
    df,                \* the sheet read by main(): sheet row -> cells
    tieUp,             \* direction in which an exact half is rounded
    pc,                \* "loaded" before main_flow has run, "serving" after
    assumptions_data,  \* the dict main_flow returns, shared by every call
    original,          \* assumptions_data as main_flow returned it
    calls,             \* number of build_new_df invocations so far
    last,              \* arguments and outcome of the latest invocation
    repeated,          \* the latest invocation repeated its predecessor's arguments
    inv                \* per worker thread: an invocation in progress, its locals

vars ==
    <<df, tieUp, pc, assumptions_data, original, calls, last, repeated, inv>>

(***************************************************************************)
(* round(n / d, 0) for d > 0: the nearest integer to n / d.                *)
(***************************************************************************)
round(n, d) ==
    LET q == n \div d
        r == n % d
    IN  IF 2 * r < d THEN q
        ELSE IF 2 * r > d THEN q + 1
        ELSE IF tieUp THEN q + 1 ELSE q

RECURSIVE sum(_)
sum(values) == IF values = <<>> THEN 0 ELSE Head(values) + sum(Tail(values))

(***************************************************************************)
(* identify_key_sections: category -> columns 1..13 of its sheet row.      *)
(***************************************************************************)
identify_key_sections(d) ==
    [k \in Range(Categories) |-> SubSeq(d[SheetRow[k]], 2, 14)]

(***************************************************************************)
(* calculate_growth_rates: per category the rounded relative change        *)
(* between consecutive months, in hundredths.                              *)
(***************************************************************************)
calculate_growth_rates(section_data) ==
    [key \in DOMAIN section_data |->
        LET values == section_data[key]
        IN  [i \in 1..(Len(values) - 1) |->
                round(100 * (values[i + 1] - values[i]), values[i])]]

(***************************************************************************)
(* main_flow.  static_keys is a list in the order of the categories.       *)
(***************************************************************************)
\* variant: a category is static only when every rate is 0.0
HasZeroEverywhere(values) == \A i \in DOMAIN values : values[i] = 0

HasZero(values) == \E i \in DOMAIN values : values[i] = 0

main_flow(d) ==
    LET sections_data == identify_key_sections(d)
        growth_rates == calculate_growth_rates(sections_data)
        static_keys ==
            SelectSeq(Categories, LAMBDA key : HasZero(growth_rates[key]))
        avg_growth_rates ==
            [key \in {k \in DOMAIN growth_rates : k \notin Range(static_keys)} |->
                round(sum(growth_rates[key]), Len(growth_rates[key]))]
        initial_values ==
            [key \in DOMAIN sections_data |-> sections_data[key][1]]
    IN  [static_keys |-> static_keys,
         avg_growth_rates |-> avg_growth_rates,
         initial_values |-> initial_values]

(***************************************************************************)
(* initial_value * (1 + rate) ** period as an exact number                 *)
(* whole + num / den, with 0 <= num < den = 100 ^ period.                  *)
(***************************************************************************)
RECURSIVE compound(_, _, _)
compound(initial_value, rate, period) ==
    IF period = 0
    THEN [whole |-> initial_value, num |-> 0, den |-> 1]
    ELSE LET x == compound(initial_value, rate, period - 1)
             f == 100 + rate
             a == x.whole * f + (x.num * f) \div x.den
             b == (x.num * f) % x.den
         IN  [whole |-> a \div 100,
              num |-> (a % 100) * x.den + b,
              den |-> 100 * x.den]

\* variant: each month is the previous rounded month grown once more
RECURSIVE projected_chained(_, _, _)
projected_chained(initial_value, rate, period) ==
    IF period = 0
    THEN initial_value
    ELSE round(projected_chained(initial_value, rate, period - 1) * (100 + rate),
               100)

\* round(initial_value * (1 + rate) ** period, 2)
projected(initial_value, rate, period) ==
    LET x == compound(initial_value, rate, period)
    IN  x.whole + round(x.num, x.den)

(***************************************************************************)
(* build_new_df, lines 56-60: the two slider percentages are written into  *)
(* the shared avg_growth_rates dict, whether or not the key was there.     *)
(* A percentage divided by 100 is that many hundredths.                    *)
(***************************************************************************)
SetItem(dict, key, value) ==
    [k \in DOMAIN dict \cup {key} |-> IF k = key THEN value ELSE dict[k]]

\* variant: the slider value is added to the rate already stored
add_product_rate(assumptions, product_sales_rate) ==
    [assumptions EXCEPT !.avg_growth_rates =
        SetItem(@, "Product Sales",
            product_sales_rate
                + (IF "Product Sales" \in DOMAIN @ THEN @["Product Sales"] ELSE 0))]

set_product_rate(assumptions, product_sales_rate) ==
    [assumptions EXCEPT !.avg_growth_rates =
        SetItem(@, "Product Sales", product_sales_rate)]

\* variant: the slider value is stored only when no rate is stored yet
default_service_rate(assumptions, service_sales_rate) ==
    [assumptions EXCEPT !.avg_growth_rates =
        IF "Service Sales" \in DOMAIN @
        THEN @
        ELSE SetItem(@, "Service Sales", service_sales_rate)]

set_service_rate(assumptions, service_sales_rate) ==
    [assumptions EXCEPT !.avg_growth_rates =
        SetItem(@, "Service Sales", service_sales_rate)]

(***************************************************************************)
(* build_new_df, lines 65-73: one pass of the loop, the list for one key.  *)
(***************************************************************************)
\* variant: a key counts as static when it has no average rate
projected_row_by_rate(assumptions, key, periods) ==
    LET initial_value == assumptions.initial_values[key]
    IN  IF key \notin DOMAIN assumptions.avg_growth_rates
        THEN [i \in 1..(periods + 1) |-> initial_value]
        ELSE [i \in 1..(periods + 1) |->
                projected(initial_value, assumptions.avg_growth_rates[key], i - 1)]

projected_row(assumptions, key, periods) ==
    LET initial_value == assumptions.initial_values[key]
    IN  IF key \in Range(assumptions.static_keys)
        THEN [i \in 1..(periods + 1) |-> initial_value]
        ELSE [i \in 1..(periods + 1) |->
                projected(initial_value, assumptions.avg_growth_rates[key], i - 1)]

new_table_data(assumptions, periods) ==
    [key \in DOMAIN assumptions.initial_values |->
        projected_row(assumptions, key, periods)]

(***************************************************************************)
(* build_new_df, lines 75-108, on a frame [index, columns, rows]: index    *)
(* is the list of row labels, rows maps a label to its cells.              *)
(***************************************************************************)
Initial == <<"Initial">>
Month(i) == <<"Month", i>>
Category == <<"Category">>

\* variant: one label per cell of the lists
column_labels_by_width(periods) ==
    [i \in 1..(periods + 1) |-> IF i = 1 THEN Initial ELSE Month(i - 1)]

column_labels(periods) == <<Initial>> \o [i \in 1..periods |-> Month(i)]

PresentationOrder ==
    <<"Product Sales", "Service Sales", "Total Sales", "Cost of Goods Sold",
      "Marketing", "Staff Salaries", "Total Operating Expenses", "Net Income">>

\* pd.DataFrame(new_table_data).transpose(): one row per key, in dict order
transposed(data) ==
    [index |-> SelectSeq(Categories, LAMBDA k : k \in DOMAIN data),
     columns |-> [c \in 1..Len(data[Categories[1]]) |-> c - 1],
     rows |-> data]

\* new_table_df.loc[label] = cells: a new row at the end
set_row(frame, label, cells) ==
    [frame EXCEPT !.index = Append(@, label),
                  !.rows = SetItem(@, label, cells)]

with_total_sales(frame) ==
    set_row(frame, "Total Sales",
        [c \in DOMAIN frame.columns |->
            frame.rows["Product Sales"][c] + frame.rows["Service Sales"][c]])

\* variant: Staff Salaries left out of the total
with_total_expenses_unstaffed(frame) ==
    set_row(frame, "Total Operating Expenses",
        [c \in DOMAIN frame.columns |->
            frame.rows["Cost of Goods Sold"][c] + frame.rows["Marketing"][c]])

with_total_expenses(frame) ==
    set_row(frame, "Total Operating Expenses",
        [c \in DOMAIN frame.columns |->
            frame.rows["Cost of Goods Sold"][c] + frame.rows["Marketing"][c]
                + frame.rows["Staff Salaries"][c]])

with_net_income(frame) ==
    set_row(frame, "Net Income",
        [c \in DOMAIN frame.columns |->
            frame.rows["Total Sales"][c]
                - frame.rows["Total Operating Expenses"][c]])

\* variant: the rows stay in the order they were added
not_reindexed(frame, order) == frame

reindex(frame, order) ==
    [frame EXCEPT !.index = order,
                  !.rows = [label \in Range(order) |-> frame.rows[label]]]

\* new_table_df.insert(0, "Category", new_table_df.index)
insert_category(frame) ==
    [frame EXCEPT !.columns = <<Category>> \o @,
                  !.rows = [label \in DOMAIN @ |-> <<label>> \o @[label]]]

NoTable == [index |-> <<>>, columns |-> <<>>, rows |-> <<>>]

\* lines 75-108: assigning the column labels raises ValueError when their
\* number is not the number of columns
build_frame(data, periods) ==
    LET frame == transposed(data)
        labels == column_labels(periods)
    IN  IF Len(labels) # Len(frame.columns)
        THEN [status |-> "ValueError", table |-> NoTable]
        ELSE [status |-> "ok",
              table |->
                insert_category(
                    reindex(
                        with_net_income(
                            with_total_expenses(
                                with_total_sales(
                                    [frame EXCEPT !.columns = labels]))),
                        PresentationOrder))]

(***************************************************************************)
(* build_new_df run from its first line to its return or its exception:    *)
(* the shared dict as it is left, and the outcome.                         *)
(***************************************************************************)
build_new_df(assumptions, periods, product_sales_rate, service_sales_rate) ==
    LET written ==
            set_service_rate(set_product_rate(assumptions, product_sales_rate),
                             service_sales_rate)
    IN  [assumptions_data |-> written,
         outcome |-> build_frame(new_table_data(written, periods), periods)]

(***************************************************************************)
(* The program: main() reads the sheet, runs main_flow and hands its       *)
(* result to secondary_flow; the interface then calls build_new_df once    *)
(* per change, one call at a time.                                         *)
(***************************************************************************)
NoAssumptions ==
    [static_keys |-> <<>>, avg_growth_rates |-> <<>>, initial_values |-> <<>>]

NoCall == [args |-> <<>>, status |-> "none", table |-> NoTable]

Threads == {1, 2}

Idle == [at |-> "idle", args |-> <<>>, next_key |-> 0,
         new_table_data |-> <<>>, status |-> "none", table |-> NoTable]

Init ==
    /\ df \in Sheets
    /\ tieUp \in BOOLEAN
    /\ pc = "loaded"
    /\ assumptions_data = NoAssumptions
    /\ original = NoAssumptions
    /\ calls = 0
    /\ last = NoCall
    /\ repeated = FALSE
    /\ inv = [t \in Threads |-> Idle]

MainFlow ==
    /\ pc = "loaded"
    /\ assumptions_data' = main_flow(df)
    /\ original' = assumptions_data'
    /\ pc' = "serving"
    /\ UNCHANGED <<df, tieUp, calls, last, repeated, inv>>

BuildNewDf(periods, product_sales_rate, service_sales_rate) ==
    /\ pc = "serving"
    /\ calls < MaxCalls
    /\ LET r == build_new_df(assumptions_data, periods, product_sales_rate,
                             service_sales_rate)
           args == <<periods, product_sales_rate, service_sales_rate>>
       IN  /\ assumptions_data' = r.assumptions_data
           /\ last' = [args |-> args, status |-> r.outcome.status,
                       table |-> r.outcome.table]
           /\ repeated' = (last.args = args)
    /\ calls' = calls + 1
    /\ UNCHANGED <<df, tieUp, pc, original, inv>>

Next ==
    \/ MainFlow
    \/ \E periods \in Periods, product_sales_rate \in ProductRates,
          service_sales_rate \in ServiceRates :
            BuildNewDf(periods, product_sales_rate, service_sales_rate)

Spec == Init /\ [][Next]_vars

(***************************************************************************)
(* Two invocations of build_new_df in flight at once, as when the          *)
(* interface serves two requests on two worker threads.  Both closures     *)
(* hold the same assumptions_data; a thread can be preempted between any   *)
(* two of the steps below.  The list comprehension of lines 70-73 is taken *)
(* as one step, which leaves out interleavings but adds none.              *)
(***************************************************************************)
ConcSheets ==
    {d \in Sheets :
        /\ d[SheetRow["Product Sales"]][2] = 10000
        /\ d[SheetRow["Product Sales"]][3] = 11000
        /\ d[SheetRow["Cost of Goods Sold"]][2] = 20000}

InitConc ==
    /\ df \in ConcSheets
    /\ tieUp \in BOOLEAN
    /\ pc = "loaded"
    /\ assumptions_data = NoAssumptions
    /\ original = NoAssumptions
    /\ calls = 0
    /\ last = NoCall
    /\ repeated = FALSE
    /\ inv = [t \in Threads |-> Idle]

\* the call: the arguments are bound
Invoke(t, periods, product_sales_rate, service_sales_rate) ==
    /\ pc = "serving"
    /\ inv[t].at = "idle"
    /\ inv' = [inv EXCEPT ![t].at = "line59",
                          ![t].args = <<periods, product_sales_rate,
                                        service_sales_rate>>]
    /\ UNCHANGED <<df, tieUp, pc, assumptions_data, original, calls, last,
                   repeated>>

Line59(t) ==
    /\ inv[t].at = "line59"
    /\ assumptions_data' = set_product_rate(assumptions_data, inv[t].args[2])
    /\ inv' = [inv EXCEPT ![t].at = "line60"]
    /\ UNCHANGED <<df, tieUp, pc, original, calls, last, repeated>>

Line60(t) ==
    /\ inv[t].at = "line60"
    /\ assumptions_data' = set_service_rate(assumptions_data, inv[t].args[3])
    /\ inv' = [inv EXCEPT ![t].at = "loop", ![t].next_key = 1]
    /\ UNCHANGED <<df, tieUp, pc, original, calls, last, repeated>>

\* lines 65-73: one pass of the loop over initial_values
LoopPass(t) ==
    /\ inv[t].at = "loop"
    /\ inv[t].next_key <= Len(Categories)
    /\ LET key == Categories[inv[t].next_key]
       IN  inv' = [inv EXCEPT
                ![t].new_table_data =
                    SetItem(@, key,
                        projected_row(assumptions_data, key, inv[t].args[1])),
                ![t].next_key = @ + 1]
    /\ UNCHANGED <<df, tieUp, pc, assumptions_data, original, calls, last,
                   repeated>>

\* lines 75-108: the frame is built from the thread's own new_table_data
Return(t) ==
    /\ inv[t].at = "loop"
    /\ inv[t].next_key > Len(Categories)
    /\ LET outcome == build_frame(inv[t].new_table_data, inv[t].args[1])
       IN  inv' = [inv EXCEPT ![t].at = "done",
                              ![t].status = outcome.status,
                              ![t].table = outcome.table]
    /\ UNCHANGED <<df, tieUp, pc, assumptions_data, original, calls, last,
                   repeated>>

NextConc ==
    \/ MainFlow
    \/ \E t \in Threads, product_sales_rate \in ProductRates,
          service_sales_rate \in ServiceRates :
            Invoke(t, ConcPeriods, product_sales_rate, service_sales_rate)
    \/ \E t \in Threads : Line59(t)
    \/ \E t \in Threads : Line60(t)
    \/ \E t \in Threads : LoopPass(t)
    \/ \E t \in Threads : Return(t)

SpecConc == InitConc /\ [][NextConc]_vars

(***************************************************************************)
(* Properties of the sequential program.                                   *)
(***************************************************************************)
Returned == calls > 0 /\ last.status = "ok"

\* the value cells of a row of the returned table (without its Category cell)
Values(label) == Tail(last.table.rows[label])

Static == Range(original.static_keys)

\* C1: in every returned table and every value column, Total Sales is
\* Product Sales + Service Sales, Total Operating Expenses is Cost of Goods
\* Sold + Marketing + Staff Salaries, and Net Income is Total Sales - Total
\* Operating Expenses, on the cells of the table as they stand.
DerivedRowsExact ==
    Returned =>
        /\ Len(last.table.columns) = last.args[1] + 2
        /\ \A label \in Range(PresentationOrder) :
                Len(Values(label)) = last.args[1] + 1
        /\ \A c \in 1..(last.args[1] + 1) :
            /\ Values("Total Sales")[c] =
                    Values("Product Sales")[c] + Values("Service Sales")[c]
            /\ Values("Total Operating Expenses")[c] =
                    Values("Cost of Goods Sold")[c] + Values("Marketing")[c]
                        + Values("Staff Salaries")[c]
            /\ Values("Net Income")[c] =
                    Values("Total Sales")[c]
                        - Values("Total Operating Expenses")[c]

DerivedRowsWitness ==
    /\ Returned
    /\ last.args[1] = MaxPeriods
    /\ Values("Net Income")[MaxPeriods + 1] < 0
    /\ Values("Total Sales")[MaxPeriods + 1] > Values("Total Sales")[1]

\* C2: avg_growth_rates never has a static category among its keys, after
\* main_flow and after any sequence of build_new_df calls.
NoStaticRate ==
    pc = "serving" =>
        \A key \in DOMAIN assumptions_data.avg_growth_rates :
            key \notin Range(assumptions_data.static_keys)

\* C3: the row of every static category is its initial value in each of the
\* periods + 1 value columns, whatever the two slider values.
StaticRowsConstant ==
    Returned =>
        \A key \in Static :
            Values(key) =
                [i \in 1..(last.args[1] + 1) |-> original.initial_values[key]]

StaticRowsWitness ==
    /\ Returned
    /\ last.args = <<MaxPeriods, 100, 100>>
    /\ "Product Sales" \in Static
    /\ "Service Sales" \in Static

\* the rate C4 names for a category
ClaimedRate(key) ==
    CASE key = "Product Sales" -> last.args[2]
      [] key = "Service Sales" -> last.args[3]
      [] OTHER -> original.avg_growth_rates[key]

\* v is initial_value * (1 + rate) ** period rounded to a whole cent
NearestCent(v, initial_value, rate, period) ==
    LET x == compound(initial_value, rate, period)
    IN  \/ v = x.whole /\ 2 * x.num <= x.den
        \/ v = x.whole + 1 /\ 2 * x.num >= x.den

\* C4: every cell p of a non-static row is initial * (1 + rate) ^ p rounded
\* to 2 decimals, from the initial value, with the Product Sales slider as the
\* rate of Product Sales, the Service Sales slider as that of Service Sales
\* and the extracted average for the other three; 100 at 4% over 3 periods
\* gives 100, 104, 108.16, 112.49.
CompoundFromInitial ==
    Returned =>
        /\ \A key \in Range(Categories) \ Static :
            \A p \in 0..last.args[1] :
                NearestCent(Values(key)[p + 1], original.initial_values[key],
                            ClaimedRate(key), p)
        /\ ( /\ "Product Sales" \notin Static
             /\ original.initial_values["Product Sales"] = 10000
             /\ last.args[1] = 3
             /\ last.args[2] = 4 )
            => Values("Product Sales") = <<10000, 10400, 10816, 11249>>

CompoundWitness ==
    /\ Returned
    /\ "Product Sales" \notin Static
    /\ original.initial_values["Product Sales"] = 10000
    /\ last.args[1] = 3
    /\ last.args[2] = 4
    /\ "Cost of Goods Sold" \notin Static
    /\ Values("Cost of Goods Sold")[4] < Values("Cost of Goods Sold")[1]

\* the rounded growth rate from month value b to month value a is 0.0
ZeroRate(a, b) ==
    LET n == 100 * (a - b)
    IN  \/ 2 * n < b /\ 2 * n > 0 - b
        \/ 2 * n = b /\ ~tieUp
        \/ 2 * n = 0 - b /\ tieUp

\* C5: right after main_flow a category is static iff one of its 12 rounded
\* growth rates is 0.0, static_keys holds category names only, and the keys
\* of avg_growth_rates are the categories that are not static.
StaticIffZeroRate ==
    (pc = "serving" /\ calls = 0) =>
        /\ \A key \in Range(Categories) :
            key \in Range(assumptions_data.static_keys) <=>
                \E i \in 1..12 :
                    ZeroRate(df[SheetRow[key]][i + 2], df[SheetRow[key]][i + 1])
        /\ Range(assumptions_data.static_keys) \subseteq Range(Categories)
        /\ DOMAIN assumptions_data.avg_growth_rates =
                Range(Categories) \ Range(assumptions_data.static_keys)
        /\ DOMAIN assumptions_data.initial_values = Range(Categories)

StaticIffWitness ==
    /\ pc = "serving"
    /\ calls = 0
    /\ "Cost of Goods Sold" \in Range(assumptions_data.static_keys)
    /\ \A i \in 1..12 :
            df[SheetRow["Cost of Goods Sold"]][i + 2] #
                df[SheetRow["Cost of Goods Sold"]][i + 1]
    /\ "Product Sales" \in DOMAIN assumptions_data.avg_growth_rates

\* C6: every returned table, periods = 0 included, has exactly the 8 rows
\* Product Sales, Service Sales, Total Sales, Cost of Goods Sold, Marketing,
\* Staff Salaries, Total Operating Expenses, Net Income, in this order.
EightRowsInOrder ==
    Returned =>
        /\ Len(last.table.index) = 8
        /\ last.table.index =
            <<"Product Sales", "Service Sales", "Total Sales",
              "Cost of Goods Sold", "Marketing", "Staff Salaries",
              "Total Operating Expenses", "Net Income">>
        /\ DOMAIN last.table.rows = Range(last.table.index)
        /\ \A label \in DOMAIN last.table.rows :
                Head(last.table.rows[label]) = label

EightRowsWitness == Returned /\ last.args[1] = 0

\* C7: a call with periods < 0 ends in an error and returns no table,
\* whatever the two slider values.
NegativePeriodsFail ==
    (calls > 0 /\ last.args[1] < 0) =>
        last.status = "ValueError" /\ last.table = NoTable

NegativePeriodsWitness ==
    /\ calls > 0
    /\ last.args[1] = 0 - NegPeriods
    /\ last.status = "ValueError"

\* C8: the second of two calls with the same arguments, the first made on
\* the assumptions as main_flow returned them, returns the table the first
\* returned.
Idempotent ==
    [][ (calls = 1 /\ calls' = 2 /\ last'.args = last.args)
            => (last'.status = last.status /\ last'.table = last.table) ]_vars

IdempotentWitness ==
    /\ calls = 2
    /\ repeated
    /\ Returned
    /\ last.args[1] = MaxPeriods
    /\ "Product Sales" \notin Static
    /\ last.args[2] # original.avg_growth_rates["Product Sales"]

\* build_new_df as a function of the assumptions as extracted: the rates are
\* copied and the two slider values set in the copy
PureProject(snapshot, periods, product_sales_rate, service_sales_rate) ==
    LET rates ==
            [key \in DOMAIN snapshot.avg_growth_rates
                        \cup {"Product Sales", "Service Sales"} |->
                CASE key = "Product Sales" -> product_sales_rate
                  [] key = "Service Sales" -> service_sales_rate
                  [] OTHER -> snapshot.avg_growth_rates[key]]
    IN  build_frame(
            new_table_data([snapshot EXCEPT !.avg_growth_rates = rates],
                           periods),
            periods)

\* C9: after any sequence of calls, failed ones included, the latest call's
\* outcome is that of the pure function on the assumptions as extracted, and
\* the calls have changed nothing of the shared assumptions but the rates of
\* Product Sales and Service Sales.
HistoryIndependent ==
    calls > 0 =>
        /\ [status |-> last.status, table |-> last.table] =
                PureProject(original, last.args[1], last.args[2], last.args[3])
        /\ assumptions_data.static_keys = original.static_keys
        /\ assumptions_data.initial_values = original.initial_values
        /\ DOMAIN assumptions_data.avg_growth_rates =
                DOMAIN original.avg_growth_rates
                    \cup {"Product Sales", "Service Sales"}
        /\ \A key \in DOMAIN original.avg_growth_rates
                        \ {"Product Sales", "Service Sales"} :
                assumptions_data.avg_growth_rates[key] =
                    original.avg_growth_rates[key]

HistoryWitness ==
    /\ calls = 2
    /\ ~repeated
    /\ Returned
    /\ last.args[1] = MaxPeriods
    /\ "Product Sales" \notin Static
    /\ "Service Sales" \notin Static
    /\ assumptions_data # original

(***************************************************************************)
(* Property of two invocations in flight at once.                          *)
(***************************************************************************)
\* C10: under every interleaving of two invocations on the shared
\* assumptions, the Product Sales and Service Sales rows of each returned
\* table are those of the invocation's own two rates.
OwnRatesOnly ==
    \A t \in Threads :
        (inv[t].at = "done" /\ inv[t].status = "ok") =>
            LET own == PureProject(original, inv[t].args[1], inv[t].args[2],
                                   inv[t].args[3]).table
            IN  /\ inv[t].table.rows["Product Sales"] =
                        own.rows["Product Sales"]
                /\ inv[t].table.rows["Service Sales"] =
                        own.rows["Service Sales"]

====
